---- MODULE Spec2Model ----
(***************************************************************************)
(* TrackStack: the trade/account ledger kept by TradeProvider              *)
(* (src/src/context/TradeContext.tsx).                                     *)
(*                                                                         *)
(* The provider holds three pieces of React state (accounts, trades,       *)
(* activeAccountId).  Handlers are closures created by a render: where the *)
(* code reads `trades`, `accounts`, `activeAccountId` or `activeAccount`   *)
(* directly it reads the values of the last render (variable view); where  *)
(* it uses a functional updater (setX(prev => ...)) it reads the current   *)
(* state.  When a user is signed in, writes go to the remote document      *)
(* store (dbAccounts, dbTrades) and come back through two independent      *)
(* snapshot listeners (snapAccounts, snapTrades are their undelivered      *)
(* events).                                                                *)
(*                                                                         *)
(* Numbers are integers: prices are in ticks, and the inputs are chosen so *)
(* that every division the code performs is exact.  Display-only fields of *)
(* a trade (symbol, pips, pnlPercent, notes, ...) and the currency of an   *)
(* account are not carried.                                                *)
(***************************************************************************)
EXTENDS Integers, Sequences, FiniteSets, TLC

\* ---------------------------------------------------------------- bounds
\* addTrade calls in a behaviour (crypto.randomUUID never repeats an id)
MaxTrades == 2
\* undelivered snapshot events per listener
MaxPending == 2
\* handler calls (addTrade, editTrade, deleteTrade(s), switchAccount) in a behaviour
MaxCalls == 2
\* sign-ins in a behaviour
MaxSignIns == 1
\* editTrade calls in a behaviour of the editing specification
MaxEdits == 1
\* createAccount calls in a behaviour
MaxAccounts == 1

\* ------------------------------------------------------- program constants
PnlScale == 100
PercentBase == 100

NoUser == "none"
Uid == "u1"

\* an optional value (a field that may be undefined): <<>> or <<v>>
Undef == <<>>
Some(v) == <<v>>
IsDef(o) == o # <<>>
Get(o) == o[1]

defaultAccount == [id |-> "acc_main", name |-> "Main Account", balance |-> 0, equity |-> 0]

loadingAccount == [id |-> "loading", name |-> "Loading...", balance |-> 0, equity |-> 0]

VARIABLES
  user,             \* useAuth().user: NoUser or a uid
  accounts,         \* React state: sequence of accounts
  trades,           \* React state: sequence of trades
  activeAccountId,  \* React state
  view,             \* the state captured by the handlers of the last render
  localStorage,     \* the keys 'accounts', 'trades', 'activeAccountId'
  dbAccounts,       \* remote collection users/{uid}/accounts: id -> document
  dbTrades,         \* remote collection users/{uid}/trades: id -> document
  snapAccounts,     \* snapshot events of the accounts listener, not yet delivered
  snapTrades,       \* snapshot events of the trades listener, not yet delivered
  nextId,           \* number of trade ids handed out by crypto.randomUUID
  lastOp,           \* history: the last handler that ran
  calls,            \* history: number of handler calls so far
  signIns,          \* history: number of sign-ins so far
  session,          \* history: local storage at sign-in, documents delivered since
  listening,        \* the uids of the subscribed listener pairs (accounts, trades)
  arg,              \* the input of a computation (calculatePips, dailyStats, sanitizing)
  result            \* its output

vars == <<user, accounts, trades, activeAccountId, view, localStorage,
          dbAccounts, dbTrades, snapAccounts, snapTrades, nextId, lastOp,
          calls, signIns, session, listening, arg, result>>

State == [accounts |-> accounts, trades |-> trades, activeAccountId |-> activeAccountId]

\* ------------------------------------------------------------ collections
EmptyColl == << >>

Range(s) == {s[i] : i \in 1..Len(s)}

Ids(s) == {s[i].id : i \in 1..Len(s)}

\* Array.prototype.find(x => x.id === id): index of the first match, 0 if none
IndexOf(s, id) ==
  IF \E i \in 1..Len(s) : s[i].id = id
  THEN CHOOSE i \in 1..Len(s) : s[i].id = id /\ \A j \in 1..(i-1) : s[j].id # id
  ELSE 0

RECURSIVE Filter(_, _)
\* s.filter(x => !drop.includes(x.id))
Filter(s, drop) ==
  IF s = <<>> THEN <<>>
  ELSE IF Head(s).id \in drop THEN Filter(Tail(s), drop)
       ELSE <<Head(s)>> \o Filter(Tail(s), drop)

RECURSIVE PnlSum(_, _)
\* sum of pnl of the trades of sequence s that carry accountId aid
PnlSum(s, aid) ==
  IF s = <<>> THEN 0
  ELSE (IF Head(s).accountId = aid THEN Head(s).pnl ELSE 0) + PnlSum(Tail(s), aid)

\* document ids order the documents of a snapshot (snapshot.docs)
AccIdRank(id) ==
  CASE id = "acc_b" -> 1 [] id = "acc_c1" -> 2 [] id = "acc_c2" -> 3 [] id = "acc_main" -> 4
    [] OTHER -> 5

\* String.prototype.localeCompare on the account names in use
NameRank(n) ==
  CASE n = "A Savings" -> 0 [] n = "B Account" -> 1 [] n = "Main Account" -> 2 [] OTHER -> 3

RECURSIVE AccountDocs(_)
\* snapshot.docs.map(d => d.data()) of the accounts collection
AccountDocs(coll) ==
  IF DOMAIN coll = {} THEN <<>>
  ELSE LET id == CHOOSE i \in DOMAIN coll : \A j \in DOMAIN coll : AccIdRank(i) <= AccIdRank(j)
       IN <<coll[id]>> \o AccountDocs([k \in (DOMAIN coll) \ {id} |-> coll[k]])

RECURSIVE TradeDocs(_)
\* snapshot.docs.map(d => d.data()) of the trades collection
TradeDocs(coll) ==
  IF DOMAIN coll = {} THEN <<>>
  ELSE LET id == CHOOSE i \in DOMAIN coll : \A j \in DOMAIN coll : i <= j
       IN <<coll[id]>> \o TradeDocs([k \in (DOMAIN coll) \ {id} |-> coll[k]])

RECURSIVE InsertByName(_, _)
InsertByName(s, a) ==
  IF s = <<>> THEN <<a>>
  ELSE IF NameRank(a.name) < NameRank(Head(s).name) THEN <<a>> \o s
       ELSE <<Head(s)>> \o InsertByName(Tail(s), a)

RECURSIVE SortByName(_)
\* newAccounts.sort((a, b) => a.name.localeCompare(b.name)), a stable sort
SortByName(s) ==
  IF s = <<>> THEN <<>>
  ELSE InsertByName(SortByName(SubSeq(s, 1, Len(s) - 1)), s[Len(s)])

RECURSIVE InsertByCloseTime(_, _)
InsertByCloseTime(s, t) ==
  IF s = <<>> THEN <<t>>
  ELSE IF t.closeTime > Head(s).closeTime THEN <<t>> \o s
       ELSE <<Head(s)>> \o InsertByCloseTime(Tail(s), t)

RECURSIVE SortByCloseTimeDesc(_)
\* newTrades.sort((a, b) => new Date(b.closeTime) - new Date(a.closeTime)), stable
SortByCloseTimeDesc(s) ==
  IF s = <<>> THEN <<>>
  ELSE InsertByCloseTime(SortByCloseTimeDesc(SubSeq(s, 1, Len(s) - 1)), s[Len(s)])

\* ------------------------------------------------------------ derivations
\* useMemo activeAccount, over the values of one render
activeAccount(v) ==
  LET i == IndexOf(v.accounts, v.activeAccountId)
  IN IF i # 0 THEN v.accounts[i]
     ELSE IF Len(v.accounts) > 0 THEN v.accounts[1]
     ELSE loadingAccount

Direction(type) == IF type = "BUY" THEN 1 ELSE -1

\* (exitPrice - entryPrice) * size * (type === 'BUY' ? 1 : -1) * 100
simplePnl(entryPrice, exitPrice, size, type) ==
  (exitPrice - entryPrice) * size * Direction(type) * PnlScale

RECURSIVE calculatePnlFromExits_unweighted(_, _, _, _)
\* variant: every exit counted with the whole size
calculatePnlFromExits_unweighted(entry, size, type, exits) ==
  IF exits = <<>> THEN 0
  ELSE (Head(exits).price - entry) * size * Direction(type) * PnlScale
       + calculatePnlFromExits_unweighted(entry, size, type, Tail(exits))

RECURSIVE calculatePnlFromExits(_, _, _, _)
\* sum of (exit.price - entry) * (size * (exit.percentage / 100)) * dir * 100
calculatePnlFromExits(entry, size, type, exits) ==
  IF exits = <<>> THEN 0
  ELSE ((Head(exits).price - entry) * (size * Head(exits).percentage)
          * Direction(type) * PnlScale) \div PercentBase
       + calculatePnlFromExits(entry, size, type, Tail(exits))

RECURSIVE totalExitPrice(_)
\* totalExitPrice += exit.price * (exit.percentage / 100)
totalExitPrice(exits) ==
  IF exits = <<>> THEN 0
  ELSE (Head(exits).price * Head(exits).percentage) \div PercentBase
       + totalExitPrice(Tail(exits))

RECURSIVE totalPercentage(_)
totalPercentage(exits) ==
  IF exits = <<>> THEN 0
  ELSE Head(exits).percentage + totalPercentage(Tail(exits))

\* setAccounts(prev => prev.map(acc => acc.id === accountId ? {...} : acc))
updateAccountBalanceLocal(accs, accountId, amountChange) ==
  [i \in 1..Len(accs) |->
     IF accs[i].id = accountId
     THEN [accs[i] EXCEPT !.balance = @ + amountChange, !.equity = @ + amountChange]
     ELSE accs[i]]

\* variant: the equity keeps its old value
setAccountBalanceLocal_balanceOnly(accs, accountId, newBalance) ==
  [i \in 1..Len(accs) |->
     IF accs[i].id = accountId THEN [accs[i] EXCEPT !.balance = newBalance] ELSE accs[i]]

setAccountBalanceLocal(accs, accountId, newBalance) ==
  [i \in 1..Len(accs) |->
     IF accs[i].id = accountId
     THEN [accs[i] EXCEPT !.balance = newBalance, !.equity = newBalance]
     ELSE accs[i]]

\* batch.update(accountRef, { balance: newBalance, equity: newBalance })
batchUpdateBalance(coll, accountId, newBalance) ==
  [coll EXCEPT ![accountId] = [@ EXCEPT !.balance = newBalance, !.equity = newBalance]]

\* a write to a collection raises one event on its listener when the
\* collection's contents changed
Notify(queue, before, after) ==
  IF after # before THEN Append(queue, after) ELSE queue

\* ------------------------------------------------------------------ inputs
Types == {"BUY", "SELL"}

\* trade prices in ticks; even, so that price * percentage / 100 is exact
EntryPrices == {2}
ExitPrices == {4}
Sizes == {1}
CloseTimes == {1, 2}
PnlOverrides == {5}

Exit(pct, price) == [percentage |-> pct, price |-> price]

\* the exits lists a dialog can send: none, a partial close, two halves
ExitLists == {<<>>, <<Exit(50, 4)>>, <<Exit(50, 2), Exit(50, 4)>>}

\* newTradeData of addTrade
AddInputs ==
  [type : Types, entryPrice : EntryPrices, exitPrice : ExitPrices, size : Sizes,
   pnl : {Undef} \cup {Some(p) : p \in PnlOverrides}, exits : {<<>>},
   closeTime : CloseTimes]

NoUpdates ==
  [pnl |-> Undef, exits |-> Undef, entryPrice |-> Undef, exitPrice |-> Undef,
   size |-> Undef, type |-> Undef]

\* the updates of editTrade the ledger specifications draw from
EditInputs ==
  { NoUpdates,
    [NoUpdates EXCEPT !.pnl = Some(7)],
    [NoUpdates EXCEPT !.exits = Some(<<Exit(50, 4)>>)],
    [NoUpdates EXCEPT !.exitPrice = Some(2)] }

\* the price fields of an update: none, a zero entry price alone, exit price
\* and size, or all four
PriceUpdates ==
  { NoUpdates,
    [NoUpdates EXCEPT !.entryPrice = Some(0)],
    [NoUpdates EXCEPT !.exitPrice = Some(2), !.size = Some(2)],
    [NoUpdates EXCEPT !.entryPrice = Some(0), !.exitPrice = Some(2), !.size = Some(2),
                      !.type = Some("SELL")] }

\* the updates of editTrade: pnl given or not, exits absent, empty, one or two,
\* with each choice of price fields
AllEditInputs ==
  { [p EXCEPT !.pnl = pnl, !.exits = exits] :
      p \in PriceUpdates,
      pnl \in {Undef, Some(7)},
      exits \in {Undef} \cup {Some(e) : e \in ExitLists} }

TradeIds == 1..MaxTrades

\* the id lists of deleteTrades: empty, two distinct ids, one id twice
IdLists ==
  {<<>>} \cup {<<i, j>> : i \in TradeIds, j \in TradeIds}

AccountIds == {"acc_main", "acc_b"}

\* the amounts of deposit, withdraw, setBalance and setInitialBalance
Amounts == {3, 10}

\* the names and opening balances of createAccount
AccountNames == {"A Savings", "Z Fund"}
InitialBalances == {0, 20}

\* `acc_${crypto.randomUUID()}`: the n-th id drawn, different from all before
CreatedId(n) == CASE n = 1 -> "acc_c1" [] n = 2 -> "acc_c2" [] OTHER -> "acc_c3"

CreatedIds == {CreatedId(n) : n \in 1..3}

\* ----------------------------------------------------------------- actions
Op(name, ids, hit) == [op |-> name, ids |-> ids, hit |-> hit]

\* the batch is rejected when it updates a document that does not exist
batchCommits(updated) == updated \subseteq DOMAIN dbAccounts

CanWrite == Len(snapAccounts) < MaxPending /\ Len(snapTrades) < MaxPending

\* a render commits: the handlers capture the state, and the persist effect
\* writes it to local storage
Render ==
  /\ view # State \/ localStorage # State
  /\ view' = State
  /\ localStorage' = State
  /\ UNCHANGED <<user, accounts, trades, activeAccountId, dbAccounts, dbTrades,
                 snapAccounts, snapTrades, nextId, lastOp>>

addTrade(d) ==
  /\ nextId < MaxTrades
  /\ user # NoUser => CanWrite
  /\ LET pnl == IF IsDef(d.pnl) THEN Get(d.pnl)
                ELSE simplePnl(d.entryPrice, d.exitPrice, d.size, d.type)
         trade == [id |-> nextId + 1, accountId |-> view.activeAccountId,
                   type |-> d.type, entryPrice |-> d.entryPrice,
                   exitPrice |-> d.exitPrice, size |-> d.size, pnl |-> pnl,
                   exits |-> d.exits, closeTime |-> d.closeTime,
                   status |-> "CLOSED"]
         newBalance == activeAccount(view).balance + trade.pnl
     IN IF user # NoUser
        THEN IF batchCommits({view.activeAccountId})
             THEN /\ dbTrades' = (trade.id :> trade) @@ dbTrades
                  /\ dbAccounts' = batchUpdateBalance(dbAccounts, view.activeAccountId, newBalance)
                  /\ snapTrades' = Notify(snapTrades, dbTrades, dbTrades')
                  /\ snapAccounts' = Notify(snapAccounts, dbAccounts, dbAccounts')
                  /\ nextId' = nextId + 1
                  /\ lastOp' = Op("addTrade", <<trade.id>>, TRUE)
                  /\ UNCHANGED <<user, accounts, trades, activeAccountId, view, localStorage>>
             ELSE /\ lastOp' = Op("addTrade", <<>>, FALSE)
                  /\ UNCHANGED <<user, accounts, trades, activeAccountId, view, localStorage,
                                 dbAccounts, dbTrades, snapAccounts, snapTrades, nextId>>
        ELSE /\ trades' = <<trade>> \o trades
             /\ accounts' = updateAccountBalanceLocal(accounts, view.activeAccountId, trade.pnl)
             /\ nextId' = nextId + 1
             /\ lastOp' = Op("addTrade", <<trade.id>>, TRUE)
             /\ UNCHANGED <<user, activeAccountId, view, localStorage, dbAccounts, dbTrades,
                            snapAccounts, snapTrades>>

\* a number or string in a condition: undefined, 0 and '' are falsy
Truthy(o) == IsDef(o) /\ Get(o) # 0

\* { ...trade, ...updates }
mergeUpdates(trade, u) ==
  [trade EXCEPT !.pnl = IF IsDef(u.pnl) THEN Get(u.pnl) ELSE @,
                !.exits = IF IsDef(u.exits) THEN Get(u.exits) ELSE @,
                !.entryPrice = IF IsDef(u.entryPrice) THEN Get(u.entryPrice) ELSE @,
                !.exitPrice = IF IsDef(u.exitPrice) THEN Get(u.exitPrice) ELSE @,
                !.size = IF IsDef(u.size) THEN Get(u.size) ELSE @,
                !.type = IF IsDef(u.type) THEN Get(u.type) ELSE @]

\* variant: the recalculation runs although updates.pnl is given
updatedTrade_recalculated(trade, u) ==
  LET m == mergeUpdates(trade, u)
  IN IF IsDef(u.exits) /\ Len(Get(u.exits)) > 0
     THEN [m EXCEPT
             !.pnl = calculatePnlFromExits(m.entryPrice, m.size, m.type, Get(u.exits))]
     ELSE IF Truthy(u.entryPrice) \/ Truthy(u.exitPrice) \/ Truthy(u.size) \/ IsDef(u.type)
          THEN [m EXCEPT !.pnl = simplePnl(m.entryPrice, m.exitPrice, m.size, m.type)]
          ELSE m

\* variant: P&L is recalculated from the prices whatever the update carries
updatedTrade_alwaysRecalculated(trade, u) ==
  LET m == mergeUpdates(trade, u)
  IN IF IsDef(u.pnl) THEN m
     ELSE [m EXCEPT !.pnl = simplePnl(m.entryPrice, m.exitPrice, m.size, m.type)]

\* updatedTrade of editTrade: the merge, then the recalculation of P&L
updatedTrade(trade, u) ==
  LET m == mergeUpdates(trade, u)
  IN IF IsDef(u.pnl) THEN m
     ELSE IF IsDef(u.exits) /\ Len(Get(u.exits)) > 0
          THEN [m EXCEPT
                  !.pnl = calculatePnlFromExits(m.entryPrice, m.size, m.type, Get(u.exits)),
                  !.exitPrice = IF totalPercentage(Get(u.exits)) > 0
                                THEN totalExitPrice(Get(u.exits)) ELSE @]
          ELSE IF Truthy(u.entryPrice) \/ Truthy(u.exitPrice) \/ Truthy(u.size) \/ IsDef(u.type)
               THEN [m EXCEPT !.pnl = simplePnl(m.entryPrice, m.exitPrice, m.size, m.type)]
               ELSE m

editTradeRemote(id, u) ==
  LET i == IndexOf(view.trades, id)
  IN IF i = 0
     THEN /\ lastOp' = Op("editTrade", <<id>>, FALSE)
          /\ UNCHANGED <<dbAccounts, dbTrades, snapAccounts, snapTrades>>
     ELSE LET trade == view.trades[i]
              new == updatedTrade(trade, u)
              pnlDiff == new.pnl - trade.pnl
              j == IndexOf(view.accounts, trade.accountId)
              touched == IF pnlDiff # 0 /\ j # 0 THEN {trade.accountId} ELSE {}
          IN IF batchCommits(touched)
             THEN /\ dbTrades' = (id :> new) @@ dbTrades
                  /\ dbAccounts' = IF touched # {}
                                   THEN batchUpdateBalance(dbAccounts, trade.accountId,
                                                           view.accounts[j].balance + pnlDiff)
                                   ELSE dbAccounts
                  /\ snapTrades' = Notify(snapTrades, dbTrades, dbTrades')
                  /\ snapAccounts' = Notify(snapAccounts, dbAccounts, dbAccounts')
                  /\ lastOp' = Op("editTrade", <<id>>, TRUE)
             ELSE /\ lastOp' = Op("editTrade", <<id>>, FALSE)
                  /\ UNCHANGED <<dbAccounts, dbTrades, snapAccounts, snapTrades>>

\* variant: an id that is not found is stored as a new trade
editTradeLocal_upsert(id, u) ==
  LET i == IndexOf(trades, id)
      blank == [id |-> id, accountId |-> activeAccountId, type |-> "BUY", entryPrice |-> 0,
                exitPrice |-> 0, size |-> 0, pnl |-> 0, exits |-> <<>>, closeTime |-> 1,
                status |-> "CLOSED"]
  IN /\ trades' = IF i = 0 THEN Append(trades, mergeUpdates(blank, u))
                  ELSE [trades EXCEPT ![i] = updatedTrade(trades[i], u)]
     /\ accounts' = IF i = 0 THEN accounts
                    ELSE updateAccountBalanceLocal(accounts, trades[i].accountId,
                                                   updatedTrade(trades[i], u).pnl - trades[i].pnl)
     /\ lastOp' = Op("editTrade", <<id>>, i # 0)

\* variant: the difference goes to the active account, not the trade's account
editTradeLocal_activeAccount(id, u) ==
  LET i == IndexOf(trades, id)
  IN IF i = 0
     THEN /\ lastOp' = Op("editTrade", <<id>>, FALSE)
          /\ UNCHANGED <<accounts, trades>>
     ELSE LET oldTrade == trades[i]
              new == updatedTrade(oldTrade, u)
              pnlDiff == new.pnl - oldTrade.pnl
          IN /\ accounts' = IF pnlDiff # 0
                            THEN updateAccountBalanceLocal(accounts, activeAccountId, pnlDiff)
                            ELSE accounts
             /\ trades' = [trades EXCEPT ![i] = new]
             /\ lastOp' = Op("editTrade", <<id>>, TRUE)

editTradeLocal(id, u) ==
  LET i == IndexOf(trades, id)
  IN IF i = 0
     THEN /\ lastOp' = Op("editTrade", <<id>>, FALSE)
          /\ UNCHANGED <<accounts, trades>>
     ELSE LET oldTrade == trades[i]
              new == updatedTrade(oldTrade, u)
              pnlDiff == new.pnl - oldTrade.pnl
          IN /\ accounts' = IF pnlDiff # 0
                            THEN updateAccountBalanceLocal(accounts, oldTrade.accountId, pnlDiff)
                            ELSE accounts
             /\ trades' = [trades EXCEPT ![i] = new]
             /\ lastOp' = Op("editTrade", <<id>>, TRUE)

editTrade(id, u) ==
  IF user # NoUser
  THEN /\ CanWrite
       /\ editTradeRemote(id, u)
       /\ UNCHANGED <<user, accounts, trades, activeAccountId, view, localStorage, nextId>>
  ELSE /\ editTradeLocal(id, u)
       /\ UNCHANGED <<user, activeAccountId, view, localStorage, dbAccounts, dbTrades,
                      snapAccounts, snapTrades, nextId>>

RECURSIVE remotePnlChange(_, _, _)
\* accountPnlChanges.get(aid) after ids.forEach(...) of the signed-in branch:
\* every listed id that trades.find(...) finds subtracts its pnl
remotePnlChange(ids, trs, aid) ==
  IF ids = <<>> THEN 0
  ELSE LET i == IndexOf(trs, Head(ids))
       IN (IF i # 0 /\ trs[i].accountId = aid THEN 0 - trs[i].pnl ELSE 0)
          + remotePnlChange(Tail(ids), trs, aid)

RECURSIVE localPnlChange(_, _, _)
\* accountPnlChanges.get(aid) of the local branch, over
\* tradesToDelete = trades.filter(t => ids.includes(t.id))
localPnlChange(idset, trs, aid) ==
  IF trs = <<>> THEN 0
  ELSE (IF Head(trs).id \in idset /\ Head(trs).accountId = aid THEN 0 - Head(trs).pnl ELSE 0)
       + localPnlChange(idset, Tail(trs), aid)

\* the keys of accountPnlChanges: the accounts of the trades found
changedAccounts(idset, trs) ==
  {trs[i].accountId : i \in {k \in 1..Len(trs) : trs[k].id \in idset}}

RECURSIVE batchUpdateAll(_, _, _, _)
\* accountPnlChanges.forEach(...) of the signed-in branch
batchUpdateAll(coll, keys, ids, v) ==
  IF keys = {} THEN coll
  ELSE LET aid == CHOOSE k \in keys : TRUE
           j == IndexOf(v.accounts, aid)
       IN batchUpdateAll(
            batchUpdateBalance(coll, aid,
                               v.accounts[j].balance + remotePnlChange(ids, v.trades, aid)),
            keys \ {aid}, ids, v)

RECURSIVE localUpdateAll(_, _, _, _)
\* accountPnlChanges.forEach(...) of the local branch
localUpdateAll(accs, keys, idset, trs) ==
  IF keys = {} THEN accs
  ELSE LET aid == CHOOSE k \in keys : TRUE
       IN localUpdateAll(
            updateAccountBalanceLocal(accs, aid, localPnlChange(idset, trs, aid)),
            keys \ {aid}, idset, trs)

deleteTradesRemote(ids) ==
  LET idset == Range(ids)
      found == idset \cap Ids(view.trades)
      keys == {a \in changedAccounts(idset, view.trades) : IndexOf(view.accounts, a) # 0}
  IN IF batchCommits(keys)
     THEN /\ dbTrades' = [k \in (DOMAIN dbTrades) \ found |-> dbTrades[k]]
          /\ dbAccounts' = batchUpdateAll(dbAccounts, keys, ids, view)
          /\ snapTrades' = Notify(snapTrades, dbTrades, dbTrades')
          /\ snapAccounts' = Notify(snapAccounts, dbAccounts, dbAccounts')
          /\ lastOp' = Op("deleteTrades", ids, found # {})
     ELSE /\ lastOp' = Op("deleteTrades", ids, FALSE)
          /\ UNCHANGED <<dbAccounts, dbTrades, snapAccounts, snapTrades>>

deleteTradesLocal(ids) ==
  LET idset == Range(ids)
      keys == changedAccounts(idset, view.trades)
  IN /\ trades' = Filter(trades, idset)
     /\ accounts' = localUpdateAll(accounts, keys, idset, view.trades)
     /\ lastOp' = Op("deleteTrades", ids, keys # {})

deleteTrades(ids) ==
  IF Len(ids) = 0
  THEN /\ lastOp' = Op("deleteTrades", ids, FALSE)
       /\ UNCHANGED <<user, accounts, trades, activeAccountId, view, localStorage,
                      dbAccounts, dbTrades, snapAccounts, snapTrades, nextId>>
  ELSE IF user # NoUser
       THEN /\ CanWrite
            /\ deleteTradesRemote(ids)
            /\ UNCHANGED <<user, accounts, trades, activeAccountId, view, localStorage, nextId>>
       ELSE /\ deleteTradesLocal(ids)
            /\ UNCHANGED <<user, activeAccountId, view, localStorage, dbAccounts, dbTrades,
                           snapAccounts, snapTrades, nextId>>

deleteTrade(id) == deleteTrades(<<id>>)

\* the number of accounts createAccount has made so far
created == Cardinality((Ids(accounts) \cup DOMAIN dbAccounts) \cap CreatedIds)

\* variant: the new account is stored but not made the active one
createAccount_notActive(name, initialBalance) ==
  /\ created < MaxAccounts
  /\ user # NoUser => CanWrite
  /\ LET newAccount == [id |-> CreatedId(created + 1), name |-> name,
                        balance |-> initialBalance, equity |-> initialBalance]
     IN IF user # NoUser
        THEN /\ dbAccounts' = (newAccount.id :> newAccount) @@ dbAccounts
             /\ snapAccounts' = Notify(snapAccounts, dbAccounts, dbAccounts')
             /\ UNCHANGED accounts
        ELSE /\ accounts' = Append(accounts, newAccount)
             /\ UNCHANGED <<dbAccounts, snapAccounts>>
  /\ lastOp' = Op("createAccount", <<>>, TRUE)
  /\ UNCHANGED <<user, trades, activeAccountId, view, localStorage, dbTrades, snapTrades,
                 nextId>>

createAccount(name, initialBalance) ==
  /\ created < MaxAccounts
  /\ user # NoUser => CanWrite
  /\ LET newAccount == [id |-> CreatedId(created + 1), name |-> name,
                        balance |-> initialBalance, equity |-> initialBalance]
     IN /\ IF user # NoUser
           THEN /\ dbAccounts' = (newAccount.id :> newAccount) @@ dbAccounts
                /\ snapAccounts' = Notify(snapAccounts, dbAccounts, dbAccounts')
                /\ UNCHANGED accounts
           ELSE /\ accounts' = Append(accounts, newAccount)
                /\ UNCHANGED <<dbAccounts, snapAccounts>>
        /\ activeAccountId' = newAccount.id
  /\ lastOp' = Op("createAccount", <<>>, TRUE)
  /\ UNCHANGED <<user, trades, view, localStorage, dbTrades, snapTrades, nextId>>

\* setDoc(accountRef, { ...activeAccount, balance, equity }, { merge: true }):
\* the document under the render's activeAccountId takes every field of the
\* render's activeAccount, with the new balance
setDocActiveAccount(newBalance) ==
  /\ CanWrite
  /\ dbAccounts' = (view.activeAccountId :>
                      [activeAccount(view) EXCEPT !.balance = newBalance,
                                                  !.equity = newBalance]) @@ dbAccounts
  /\ snapAccounts' = Notify(snapAccounts, dbAccounts, dbAccounts')
  /\ UNCHANGED accounts

setInitialBalance(amount) ==
  /\ IF user # NoUser
     THEN setDocActiveAccount(amount)
     ELSE /\ accounts' = setAccountBalanceLocal(accounts, view.activeAccountId, amount)
          /\ UNCHANGED <<dbAccounts, snapAccounts>>
  /\ lastOp' = Op("setInitialBalance", <<>>, TRUE)
  /\ UNCHANGED <<user, trades, activeAccountId, view, localStorage, dbTrades, snapTrades,
                 nextId>>

deposit(amount) ==
  /\ IF user # NoUser
     THEN setDocActiveAccount(activeAccount(view).balance + amount)
     ELSE /\ accounts' = updateAccountBalanceLocal(accounts, view.activeAccountId, amount)
          /\ UNCHANGED <<dbAccounts, snapAccounts>>
  /\ lastOp' = Op("deposit", <<>>, TRUE)
  /\ UNCHANGED <<user, trades, activeAccountId, view, localStorage, dbTrades, snapTrades,
                 nextId>>

withdraw(amount) ==
  /\ IF user # NoUser
     THEN setDocActiveAccount(activeAccount(view).balance - amount)
     ELSE /\ accounts' = updateAccountBalanceLocal(accounts, view.activeAccountId, -amount)
          /\ UNCHANGED <<dbAccounts, snapAccounts>>
  /\ lastOp' = Op("withdraw", <<>>, TRUE)
  /\ UNCHANGED <<user, trades, activeAccountId, view, localStorage, dbTrades, snapTrades,
                 nextId>>

setBalance(amount) ==
  /\ IF user # NoUser
     THEN setDocActiveAccount(amount)
     ELSE /\ accounts' = setAccountBalanceLocal(accounts, view.activeAccountId, amount)
          /\ UNCHANGED <<dbAccounts, snapAccounts>>
  /\ lastOp' = Op("setBalance", <<>>, TRUE)
  /\ UNCHANGED <<user, trades, activeAccountId, view, localStorage, dbTrades, snapTrades,
                 nextId>>

\* variant: the id is taken without looking it up
switchAccount_unchecked(id) ==
  /\ activeAccountId' = id
  /\ localStorage' = IF user = NoUser
                     THEN [localStorage EXCEPT !.activeAccountId = id]
                     ELSE localStorage
  /\ lastOp' = Op("switchAccount", <<>>, TRUE)
  /\ UNCHANGED <<user, accounts, trades, view, dbAccounts, dbTrades, snapAccounts,
                 snapTrades, nextId>>

switchAccount(id) ==
  /\ IF IndexOf(view.accounts, id) # 0
     THEN /\ activeAccountId' = id
          /\ localStorage' = IF user = NoUser
                             THEN [localStorage EXCEPT !.activeAccountId = id]
                             ELSE localStorage
          /\ lastOp' = Op("switchAccount", <<>>, TRUE)
     ELSE /\ lastOp' = Op("switchAccount", <<>>, FALSE)
          /\ UNCHANGED <<activeAccountId, localStorage>>
  /\ UNCHANGED <<user, accounts, trades, view, dbAccounts, dbTrades, snapAccounts,
                 snapTrades, nextId>>

\* ------------------------------------------------- authentication, listeners
\* the listener pairs of a provider that has always run for user u
Subscribed(u) == IF u = NoUser THEN <<>> ELSE <<u>>

\* the cleanup of the listeners effect: unsubAccounts(); unsubTrades()
unsubscribe(subs, uid) == SelectSeq(subs, LAMBDA u : u # uid)

\* onAuthStateChanged delivers a user: the provider renders, the persist effect
\* runs, and the listeners effect subscribes (each listener first receives the
\* current contents of its collection)
signIn ==
  /\ user = NoUser
  /\ user' = Uid
  /\ view' = State
  /\ localStorage' = State
  /\ listening' = Append(listening, Uid)
  /\ snapAccounts' = <<dbAccounts>>
  /\ snapTrades' = <<dbTrades>>
  /\ lastOp' = Op("signIn", <<>>, TRUE)
  /\ UNCHANGED <<accounts, trades, activeAccountId, dbAccounts, dbTrades, nextId>>

\* what the persist effect has stored when the logout effect reads it
persisted == State

\* the logout effect: setAccounts / setTrades / setActiveAccountId from storage
logoutState(saved) == saved

\* variant: the cleanup of the listeners effect unsubscribes nothing
signOut_keepsListeners ==
  /\ user # NoUser
  /\ user' = NoUser
  /\ LET loaded == logoutState(persisted)
     IN /\ accounts' = loaded.accounts
        /\ trades' = loaded.trades
        /\ activeAccountId' = loaded.activeAccountId
        /\ view' = loaded
        /\ localStorage' = loaded
  /\ lastOp' = Op("signOut", <<>>, TRUE)
  /\ UNCHANGED <<listening, snapAccounts, snapTrades, dbAccounts, dbTrades, nextId>>

\* onAuthStateChanged delivers null: the provider renders, the listeners are
\* unsubscribed, the persist effect runs and the logout effect loads local storage
signOut ==
  /\ user # NoUser
  /\ user' = NoUser
  /\ LET loaded == logoutState(persisted)
     IN /\ accounts' = loaded.accounts
        /\ trades' = loaded.trades
        /\ activeAccountId' = loaded.activeAccountId
        /\ view' = loaded
        /\ localStorage' = loaded
  /\ listening' = unsubscribe(listening, user)
  /\ snapAccounts' = <<>>
  /\ snapTrades' = <<>>
  /\ lastOp' = Op("signOut", <<>>, TRUE)
  /\ UNCHANGED <<dbAccounts, dbTrades, nextId>>

\* variant: the fallback is the last account of the snapshot
failover_lastAccount(prevId, newAccounts) ==
  IF IndexOf(newAccounts, prevId) # 0 THEN prevId ELSE newAccounts[Len(newAccounts)].id

\* setActiveAccountId(prevId => exists ? prevId : newAccounts[0].id)
failover(prevId, newAccounts) ==
  IF IndexOf(newAccounts, prevId) # 0 THEN prevId ELSE newAccounts[1].id

\* variant: an empty snapshot is dropped, no default account is written
deliverAccounts_noDefault ==
  /\ listening # <<>>
  /\ snapAccounts # <<>>
  /\ LET newAccounts == SortByName(AccountDocs(Head(snapAccounts)))
     IN IF Len(newAccounts) > 0
        THEN /\ accounts' = newAccounts
             /\ activeAccountId' = failover(activeAccountId, newAccounts)
             /\ snapAccounts' = Tail(snapAccounts)
             /\ UNCHANGED dbAccounts
        ELSE /\ snapAccounts' = Tail(snapAccounts)
             /\ UNCHANGED <<accounts, activeAccountId, dbAccounts>>
  /\ UNCHANGED <<user, trades, view, localStorage, dbTrades, snapTrades, nextId, lastOp>>

\* the accounts onSnapshot callback
deliverAccounts ==
  /\ listening # <<>>
  /\ snapAccounts # <<>>
  /\ LET newAccounts == SortByName(AccountDocs(Head(snapAccounts)))
     IN IF Len(newAccounts) > 0
        THEN /\ accounts' = newAccounts
             /\ activeAccountId' = failover(activeAccountId, newAccounts)
             /\ snapAccounts' = Tail(snapAccounts)
             /\ UNCHANGED dbAccounts
        ELSE /\ dbAccounts' = (defaultAccount.id :> defaultAccount) @@ dbAccounts
             /\ snapAccounts' = Notify(Tail(snapAccounts), dbAccounts, dbAccounts')
             /\ UNCHANGED <<accounts, activeAccountId>>
  /\ UNCHANGED <<user, trades, view, localStorage, dbTrades, snapTrades, nextId, lastOp>>

\* the trades onSnapshot callback
deliverTrades ==
  /\ listening # <<>>
  /\ snapTrades # <<>>
  /\ trades' = SortByCloseTimeDesc(TradeDocs(Head(snapTrades)))
  /\ snapTrades' = Tail(snapTrades)
  /\ UNCHANGED <<user, accounts, activeAccountId, view, localStorage, dbAccounts,
                 dbTrades, snapAccounts, nextId, lastOp>>

\* ------------------------------------------------------------ specification
\* History of the session, for the statements about sign-in and sign-out:
\* what local storage held at sign-in and what the listeners have delivered.
NoSession == [saved |-> State, gotAccounts |-> {}, gotTrades |-> {}]

\* no computation is in hand
NoArg == [fn |-> "none"]

NoResult == [done |-> FALSE]

NoComputation == arg = NoArg /\ result = NoResult

\* a handler call, counted
Call(A) ==
  /\ calls < MaxCalls
  /\ A
  /\ calls' = calls + 1
  /\ UNCHANGED <<signIns, session, listening, arg, result>>

\* a step of React or of a listener
Background(A) == A /\ UNCHANGED <<calls, signIns, session, listening, arg, result>>

\* the ids a caller can pass: the id of a trade its render shows, or an id
\* that no trade has (any longer); the id of a trade that was stored but not
\* yet rendered is known to nobody (addTrade returns nothing)
Callable(id) ==
  \/ id \in Ids(view.trades)
  \/ id \notin Ids(trades) \cup DOMAIN dbTrades

AddTradeStep == \E d \in AddInputs : Call(addTrade(d))

EditTradeStep ==
  \E id \in TradeIds, u \in EditInputs : Callable(id) /\ Call(editTrade(id, u))

EditTradeAnyStep ==
  /\ calls < MaxEdits
  /\ \E id \in TradeIds, u \in AllEditInputs : Callable(id) /\ Call(editTrade(id, u))

DeleteTradeStep == \E id \in TradeIds : Callable(id) /\ Call(deleteTrade(id))

DeleteTradesStep ==
  \E ids \in IdLists : (\A id \in Range(ids) : Callable(id)) /\ Call(deleteTrades(ids))

SwitchAccountStep == \E id \in AccountIds : Call(switchAccount(id))

RenderStep == Background(Render)

DeliverAccountsStep == Background(deliverAccounts)

DeliverTradesStep == Background(deliverTrades)

\* ---- the ledger in one storage mode: local, or signed in and in sync
localAccounts ==
  << defaultAccount, [id |-> "acc_b", name |-> "B Account", balance |-> 0, equity |-> 0] >>

Collection(s) == [id \in Ids(s) |-> s[IndexOf(s, id)]]

InitLedger ==
  /\ user \in {NoUser, Uid}
  /\ accounts = SortByName(localAccounts)
  /\ trades = <<>>
  /\ activeAccountId = "acc_main"
  /\ view = State
  /\ localStorage = State
  /\ dbAccounts = IF user = NoUser THEN EmptyColl ELSE Collection(accounts)
  /\ dbTrades = EmptyColl
  /\ snapAccounts = <<>>
  /\ snapTrades = <<>>
  /\ nextId = 0
  /\ lastOp = Op("init", <<>>, FALSE)
  /\ calls = 0
  /\ signIns = 0
  /\ session = NoSession
  /\ listening = Subscribed(user)
  /\ NoComputation

NextLedger ==
  \/ RenderStep
  \/ AddTradeStep
  \/ EditTradeStep
  \/ DeleteTradeStep
  \/ DeleteTradesStep
  \/ DeliverAccountsStep
  \/ DeliverTradesStep

SpecLedger == InitLedger /\ [][NextLedger]_vars

\* ---- one stored trade, edited with every combination of update fields
storedTrade ==
  [id |-> 1, accountId |-> "acc_main", type |-> "BUY", entryPrice |-> 2, exitPrice |-> 4,
   size |-> 1, pnl |-> simplePnl(2, 4, 1, "BUY"), exits |-> <<>>, closeTime |-> 1,
   status |-> "CLOSED"]

InitEdit ==
  /\ user \in {NoUser, Uid}
  /\ accounts = updateAccountBalanceLocal(SortByName(localAccounts), "acc_main", storedTrade.pnl)
  /\ trades = <<storedTrade>>
  /\ activeAccountId = "acc_main"
  /\ view = State
  /\ localStorage = State
  /\ dbAccounts = IF user = NoUser THEN EmptyColl ELSE Collection(accounts)
  /\ dbTrades = IF user = NoUser THEN EmptyColl ELSE Collection(trades)
  /\ snapAccounts = <<>>
  /\ snapTrades = <<>>
  /\ nextId = 1
  /\ lastOp = Op("init", <<>>, FALSE)
  /\ calls = 0
  /\ signIns = 0
  /\ session = NoSession
  /\ listening = Subscribed(user)
  /\ NoComputation

NextEdit ==
  \/ RenderStep
  \/ EditTradeAnyStep
  \/ DeliverAccountsStep
  \/ DeliverTradesStep

SpecEdit == InitEdit /\ [][NextEdit]_vars

\* ---- two stored trades, of one account or of two, and their deletion
secondTrade(owner) ==
  [id |-> 2, accountId |-> owner, type |-> "SELL", entryPrice |-> 2, exitPrice |-> 4,
   size |-> 1, pnl |-> 5, exits |-> <<>>, closeTime |-> 2, status |-> "CLOSED"]

InitDelete ==
  /\ user \in {NoUser, Uid}
  /\ \E owner \in AccountIds :
       /\ trades = <<secondTrade(owner), storedTrade>>
       /\ accounts = updateAccountBalanceLocal(
                       updateAccountBalanceLocal(SortByName(localAccounts),
                                                 storedTrade.accountId, storedTrade.pnl),
                       owner, secondTrade(owner).pnl)
  /\ activeAccountId = "acc_main"
  /\ view = State
  /\ localStorage = State
  /\ dbAccounts = IF user = NoUser THEN EmptyColl ELSE Collection(accounts)
  /\ dbTrades = IF user = NoUser THEN EmptyColl ELSE Collection(trades)
  /\ snapAccounts = <<>>
  /\ snapTrades = <<>>
  /\ nextId = 2
  /\ lastOp = Op("init", <<>>, FALSE)
  /\ calls = 0
  /\ signIns = 0
  /\ session = NoSession
  /\ listening = Subscribed(user)
  /\ NoComputation

NextDelete ==
  \/ RenderStep
  \/ DeleteTradeStep
  \/ DeleteTradesStep
  \/ DeliverAccountsStep
  \/ DeliverTradesStep

SpecDelete == InitDelete /\ [][NextDelete]_vars

\* ---- two stored trades, deleted one at a time and edited
NextRemoved ==
  \/ RenderStep
  \/ EditTradeStep
  \/ DeleteTradeStep
  \/ DeliverAccountsStep
  \/ DeliverTradesStep

SpecRemoved == InitDelete /\ [][NextRemoved]_vars

\* ---- the application: a returning guest who signs in and out
\* the remote store of the user: never used, or one account from an earlier session
RemoteInits ==
  { EmptyColl,
    ("acc_main" :> [defaultAccount EXCEPT !.balance = 50, !.equity = 50]) }

AppAddInputs == {d \in AddInputs : d.type = "BUY" /\ d.closeTime = 1}

AppEditInputs == {[NoUpdates EXCEPT !.pnl = Some(7)]}

Init ==
  /\ user = NoUser
  /\ accounts = localAccounts
  /\ trades = <<>>
  /\ activeAccountId = "acc_main"
  /\ view = State
  /\ localStorage = State
  /\ dbAccounts \in RemoteInits
  /\ dbTrades = EmptyColl
  /\ snapAccounts = <<>>
  /\ snapTrades = <<>>
  /\ nextId = 0
  /\ lastOp = Op("init", <<>>, FALSE)
  /\ calls = 0
  /\ signIns = 0
  /\ session = NoSession
  /\ listening = Subscribed(user)
  /\ NoComputation

AppAddTradeStep == \E d \in AppAddInputs : Call(addTrade(d))

AppEditTradeStep ==
  \E id \in TradeIds, u \in AppEditInputs : Callable(id) /\ Call(editTrade(id, u))

SignInStep ==
  /\ signIns < MaxSignIns
  /\ signIn
  /\ signIns' = signIns + 1
  /\ session' = [saved |-> localStorage', gotAccounts |-> {}, gotTrades |-> {}]
  /\ UNCHANGED <<calls, arg, result>>

SignOutStep ==
  /\ signOut
  /\ session' = [session EXCEPT !.gotAccounts = {}, !.gotTrades = {}]
  /\ UNCHANGED <<calls, signIns, arg, result>>

AppDeliverAccountsStep ==
  /\ deliverAccounts
  /\ session' = [session EXCEPT !.gotAccounts =
                   IF accounts' # accounts THEN @ \cup Range(accounts') ELSE @]
  /\ UNCHANGED <<calls, signIns, listening, arg, result>>

AppDeliverTradesStep ==
  /\ deliverTrades
  /\ session' = [session EXCEPT !.gotTrades = @ \cup Range(trades')]
  /\ UNCHANGED <<calls, signIns, listening, arg, result>>

Next ==
  \/ RenderStep
  \/ AppAddTradeStep
  \/ AppEditTradeStep
  \/ DeleteTradeStep
  \/ SwitchAccountStep
  \/ SignInStep
  \/ SignOutStep
  \/ AppDeliverAccountsStep
  \/ AppDeliverTradesStep

Spec == Init /\ [][Next]_vars

\* ---- a guest who adds trades, switches account, signs in and out; the
\* accounts listener is called for every snapshot that is pending while it is
\* subscribed
NextDelivered ==
  \/ RenderStep
  \/ AppAddTradeStep
  \/ SwitchAccountStep
  \/ SignInStep
  \/ SignOutStep
  \/ AppDeliverAccountsStep
  \/ AppDeliverTradesStep

SpecDelivered == Init /\ [][NextDelivered]_vars /\ WF_vars(AppDeliverAccountsStep)

\* ---- the accounts and the ledger together, in one storage mode
CreateAccountStep ==
  \E name \in AccountNames, initialBalance \in InitialBalances :
    Call(createAccount(name, initialBalance))

SetInitialBalanceStep == \E amount \in Amounts : Call(setInitialBalance(amount))

DepositStep == \E amount \in Amounts : Call(deposit(amount))

WithdrawStep == \E amount \in Amounts : Call(withdraw(amount))

SetBalanceStep == \E amount \in Amounts : Call(setBalance(amount))

\* the trades added and the updates made next to the account operations
LongAdds == {d \in AddInputs : d.type = "BUY" /\ d.closeTime = 1}

PnlEdits == {u \in EditInputs : IsDef(u.pnl) \/ IsDef(u.exits)}

AddLongStep == \E d \in LongAdds : Call(addTrade(d))

EditPnlStep == \E id \in TradeIds, u \in PnlEdits : Callable(id) /\ Call(editTrade(id, u))

\* ---- a stored trade of the active account or of the other one; trades are
\* added, edited and deleted while the active account is switched
InitFrame ==
  /\ user \in {NoUser, Uid}
  /\ \E owner \in AccountIds :
       /\ trades = <<[storedTrade EXCEPT !.accountId = owner]>>
       /\ accounts = updateAccountBalanceLocal(SortByName(localAccounts), owner,
                                               storedTrade.pnl)
  /\ activeAccountId = "acc_main"
  /\ view = State
  /\ localStorage = State
  /\ dbAccounts = IF user = NoUser THEN EmptyColl ELSE Collection(accounts)
  /\ dbTrades = IF user = NoUser THEN EmptyColl ELSE Collection(trades)
  /\ snapAccounts = <<>>
  /\ snapTrades = <<>>
  /\ nextId = 1
  /\ lastOp = Op("init", <<>>, FALSE)
  /\ calls = 0
  /\ signIns = 0
  /\ session = NoSession
  /\ listening = Subscribed(user)
  /\ NoComputation

FrameAdds == {d \in LongAdds : d.pnl = Undef}

AddToActiveStep == \E d \in FrameAdds : Call(addTrade(d))

NextFrame ==
  \/ RenderStep
  \/ AddToActiveStep
  \/ AppEditTradeStep
  \/ DeleteTradesStep
  \/ SwitchAccountStep
  \/ DeliverAccountsStep
  \/ DeliverTradesStep

SpecFrame == InitFrame /\ [][NextFrame]_vars

NextAccounts ==
  \/ RenderStep
  \/ CreateAccountStep
  \/ SetInitialBalanceStep
  \/ DepositStep
  \/ WithdrawStep
  \/ SetBalanceStep
  \/ AddLongStep
  \/ EditPnlStep
  \/ DeleteTradesStep
  \/ DeliverAccountsStep
  \/ DeliverTradesStep

SpecAccounts == InitLedger /\ [][NextAccounts]_vars

\* ---- trade entry: the dialog's handleSubmit and direct calls, exits included
\* formData and exits of AddTradeDialog; a field left empty is Undef
Forms ==
  [type : Types, entryPrice : {Some(2)}, exitPrice : {Undef, Some(2), Some(4)},
   size : {Some(1)}, pnl : {Undef, Some(5)}, exits : ExitLists, closeTime : {1}]

\* Number(field) || 0
NumberOr0(field) == IF IsDef(field) THEN Get(field) ELSE 0

\* hasPriceData || hasPnlData
canSubmit(form) ==
  \/ /\ Truthy(form.entryPrice)
     /\ Truthy(form.size)
     /\ IsDef(form.exitPrice) \/ Len(form.exits) > 0
  \/ IsDef(form.pnl)

\* the newTradeData handleSubmit passes to addTrade
handleSubmit(form) ==
  LET hasPnlData == IsDef(form.pnl)
      entry == NumberOr0(form.entryPrice)
      size == NumberOr0(form.size)
      fromExits == ~hasPnlData /\ Len(form.exits) > 0
      total == totalPercentage(form.exits)
      remainingPct == PercentBase - total
      hasRemainder == total < PercentBase /\ IsDef(form.exitPrice)
      remainingPnl == ((NumberOr0(form.exitPrice) - entry) * (size * remainingPct)
                        * Direction(form.type) * PnlScale) \div PercentBase
      totalPnl == calculatePnlFromExits(entry, size, form.type, form.exits)
                    + IF hasRemainder THEN remainingPnl ELSE 0
      weighted == totalExitPrice(form.exits)
                    + IF hasRemainder
                      THEN (NumberOr0(form.exitPrice) * remainingPct) \div PercentBase
                      ELSE 0
  IN [type |-> form.type,
      entryPrice |-> entry,
      exitPrice |-> IF fromExits /\ total > 0 THEN weighted ELSE NumberOr0(form.exitPrice),
      size |-> size,
      pnl |-> IF hasPnlData THEN form.pnl
              ELSE IF fromExits THEN Some(totalPnl) ELSE Undef,
      exits |-> form.exits,
      closeTime |-> form.closeTime]

\* newTradeData of a direct call of addTrade, exits included
ExitAdds ==
  [type : Types, entryPrice : EntryPrices, exitPrice : {2, 4}, size : Sizes,
   pnl : {Undef} \cup {Some(p) : p \in PnlOverrides}, exits : ExitLists,
   closeTime : {1}]

SubmitTradeStep == \E form \in Forms : canSubmit(form) /\ Call(addTrade(handleSubmit(form)))

AddWithExitsStep == \E d \in ExitAdds : Call(addTrade(d))

NextEntry ==
  \/ RenderStep
  \/ SubmitTradeStep
  \/ AddWithExitsStep
  \/ DeliverAccountsStep
  \/ DeliverTradesStep

SpecEntry == InitLedger /\ [][NextEntry]_vars

\* ---- a guest who signs in to a remote store of none, one, two or three accounts
remotePool ==
  { [defaultAccount EXCEPT !.balance = 50, !.equity = 50],
    [id |-> "acc_b", name |-> "B Account", balance |-> 0, equity |-> 0],
    [id |-> "acc_x", name |-> "A Savings", balance |-> 10, equity |-> 10] }

RemoteSets == {[id \in {a.id : a \in docs} |-> CHOOSE a \in docs : a.id = id] :
                 docs \in SUBSET remotePool}

\* the ids passed to switchAccount: of local accounts, of a remote account, of none
SwitchIds == AccountIds \cup {"acc_x", "acc_none"}

InitSession ==
  /\ user = NoUser
  /\ accounts = localAccounts
  /\ trades = <<>>
  /\ activeAccountId \in AccountIds
  /\ view = State
  /\ localStorage = State
  /\ dbAccounts \in RemoteSets
  /\ dbTrades = EmptyColl
  /\ snapAccounts = <<>>
  /\ snapTrades = <<>>
  /\ nextId = 0
  /\ lastOp = Op("init", <<>>, FALSE)
  /\ calls = 0
  /\ signIns = 0
  /\ session = NoSession
  /\ listening = Subscribed(user)
  /\ NoComputation

SwitchAnyStep == \E id \in SwitchIds : Call(switchAccount(id))

NextSession ==
  \/ RenderStep
  \/ SwitchAnyStep
  \/ SignInStep
  \/ AppDeliverAccountsStep
  \/ AppDeliverTradesStep

SpecSession == InitSession /\ [][NextSession]_vars

\* ---- the active account over a session: accounts created and selected, as a
\* guest and signed in
NextPointer ==
  \/ RenderStep
  \/ CreateAccountStep
  \/ SwitchAnyStep
  \/ SignInStep
  \/ SignOutStep
  \/ AppDeliverAccountsStep
  \/ AppDeliverTradesStep

SpecPointer == InitSession /\ [][NextPointer]_vars

\* ------------------------------------------------------ the pure computations
\* the provider at rest while a computation is looked at on its own
ProviderVars ==
  <<user, accounts, trades, activeAccountId, view, localStorage, dbAccounts, dbTrades,
    snapAccounts, snapTrades, nextId, lastOp, calls, signIns, session, listening>>

AtRest ==
  /\ user = NoUser
  /\ accounts = SortByName(localAccounts)
  /\ trades = <<>>
  /\ activeAccountId = "acc_main"
  /\ view = State
  /\ localStorage = State
  /\ dbAccounts = EmptyColl
  /\ dbTrades = EmptyColl
  /\ snapAccounts = <<>>
  /\ snapTrades = <<>>
  /\ nextId = 0
  /\ lastOp = Op("init", <<>>, FALSE)
  /\ calls = 0
  /\ signIns = 0
  /\ session = NoSession
  /\ listening = Subscribed(user)

\* ---- the document handed to batch.set by addTrade and editTrade
\* JavaScript values of a trade's fields, by their source text
JsValues == {"undefined", "null", "0", "false", "''", "1.5"}

Falsy == {"undefined", "null", "0", "false", "''"}

\* optional fields of Trade
TradeFields == {"stopLoss", "slStatus", "notes"}

\* the objects with some of the fields, each with any of the values
TradeObjects == UNION {[fs -> JsValues] : fs \in SUBSET TradeFields}

\* variant: only truthy values are kept
sanitize_truthy(trade) ==
  [k \in {f \in DOMAIN trade : trade[f] \notin Falsy} |-> trade[k]]

\* Object.entries(trade).reduce((acc, [key, value]) => {
\*   if (value !== undefined) acc[key] = value; return acc }, {})
sanitize(trade) ==
  [k \in {f \in DOMAIN trade : trade[f] # "undefined"} |-> trade[k]]

\* batch.set(tradeRef, data): the document is the data
batchSet(data) == data

\* batch.set(tradeRef, data, { merge: true }): the fields of data replace the
\* document's, its other fields stay
batchSetMerge(old, data) ==
  [k \in DOMAIN old \cup DOMAIN data |-> IF k \in DOMAIN data THEN data[k] ELSE old[k]]

\* the document editTrade merges into: the trade as it was stored
StoredDocs == {[f \in fs |-> "1.5"] : fs \in {{}, {"notes"}, TradeFields}}

InitSanitize ==
  /\ AtRest
  /\ \/ \E t \in TradeObjects : arg = [fn |-> "addTrade", trade |-> t]
     \/ \E t \in TradeObjects, old \in StoredDocs :
          arg = [fn |-> "editTrade", trade |-> t, old |-> old]
  /\ result = NoResult

WriteAddedTrade ==
  /\ arg.fn = "addTrade"
  /\ result = NoResult
  /\ LET sanitizedTrade == sanitize(arg.trade)
     IN result' = [done |-> TRUE, written |-> sanitizedTrade,
                   stored |-> batchSet(sanitizedTrade)]
  /\ UNCHANGED <<ProviderVars, arg>>

WriteEditedTrade ==
  /\ arg.fn = "editTrade"
  /\ result = NoResult
  /\ LET sanitizedUpdatedTrade == sanitize(arg.trade)
     IN result' = [done |-> TRUE, written |-> sanitizedUpdatedTrade,
                   stored |-> batchSetMerge(arg.old, sanitizedUpdatedTrade)]
  /\ UNCHANGED <<ProviderVars, arg>>

NextSanitize == WriteAddedTrade \/ WriteEditedTrade

SpecSanitize == InitSanitize /\ [][NextSanitize]_vars

\* ---- one edit of a stored trade's optional fields, made by a guest and by a
\* signed-in user
\* { ...trade, ...updates }: the fields of updates replace the trade's, a
\* field given as undefined included
spread(trade, updates) ==
  [k \in DOMAIN trade \cup DOMAIN updates |->
     IF k \in DOMAIN updates THEN updates[k] ELSE trade[k]]

\* trade.field as a reader of the trade sees it
FieldOf(trade, k) == IF k \in DOMAIN trade THEN trade[k] ELSE "undefined"

InitModes ==
  /\ AtRest
  /\ \E old \in StoredDocs, u \in TradeObjects :
       arg = [fn |-> "editInBothModes", old |-> old, updates |-> u]
  /\ result = NoResult

\* the local branch: newTrades[tradeIndex] = updatedTrade
EditAsGuest ==
  /\ arg.fn = "editInBothModes"
  /\ result = NoResult
  /\ result' = [done |-> FALSE, local |-> spread(arg.old, arg.updates)]
  /\ UNCHANGED <<ProviderVars, arg>>

\* the signed-in branch and the trades listener: the document after
\* batch.set(tradeRef, sanitizedUpdatedTrade, { merge: true }) is the trade
EditSignedIn ==
  /\ arg.fn = "editInBothModes"
  /\ ~result.done
  /\ "local" \in DOMAIN result
  /\ LET sanitizedUpdatedTrade == sanitize(spread(arg.old, arg.updates))
     IN result' = [done |-> TRUE, local |-> result.local,
                   remote |-> batchSetMerge(arg.old, sanitizedUpdatedTrade)]
  /\ UNCHANGED <<ProviderVars, arg>>

NextModes == EditAsGuest \/ EditSignedIn

SpecModes == InitModes /\ [][NextModes]_vars

\* ---- calculatePips
\* prices are fixed-point numbers: PriceScale units make 1
PriceScale == 10000

\* let multiplier = 10000; // Standard pairs (4th decimal)
StandardMultiplier == 10000

\* multiplier = 100; // JPY pairs (2nd decimal)
JpyMultiplier == 100

\* the digits toFixed(1) keeps: tenths
Tenths == 10

Symbols == {"", "EURUSD", "XAUUSD", "USDJPY", "usdjpy"}

\* 0, 1.1000, 1.1016, 1.2342
Prices == {0, 11000, 11016, 12342}

\* symbol.toUpperCase(), on Symbols
toUpperCase(symbol) == IF symbol = "usdjpy" THEN "USDJPY" ELSE symbol

\* sym.includes('JPY'), on Symbols
includesJPY(sym) == sym = "USDJPY"

Abs(n) == IF n < 0 THEN -n ELSE n

\* Number(x.toFixed(1)) for x = n / d, in tenths: the nearest tenth (no input
\* of Prices lies halfway between two tenths)
toFixed1(n, d) ==
  LET q == (Abs(n) * Tenths + d \div 2) \div d
  IN IF n < 0 THEN -q ELSE q

\* the result is in tenths of a pip
calculatePips(symbol, entry, exit, type) ==
  IF symbol = "" \/ entry = 0 \/ exit = 0 THEN 0
  ELSE LET sym == toUpperCase(symbol)
           multiplier == IF includesJPY(sym) THEN JpyMultiplier ELSE StandardMultiplier
           diff == IF type = "BUY" THEN exit - entry ELSE entry - exit
       IN toFixed1(diff * multiplier, PriceScale)

PipsInputs == [symbol : Symbols, entryPrice : Prices, exitPrice : Prices, type : Types]

InitPips ==
  /\ AtRest
  /\ \E fn \in {"addTrade.pips", "editTrade.pips"}, d \in PipsInputs :
       arg = [fn |-> fn, trade |-> d]
  /\ result = NoResult

\* addTrade with pips not supplied: calculatePips, then Number(pips.toFixed(1))
AddTradePips ==
  /\ arg.fn = "addTrade.pips"
  /\ result = NoResult
  /\ LET d == arg.trade
         pips == calculatePips(d.symbol, d.entryPrice, d.exitPrice, d.type)
     IN result' = [done |-> TRUE, pips |-> toFixed1(pips, Tenths)]
  /\ UNCHANGED <<ProviderVars, arg>>

\* editTrade: updatedTrade.pips = calculatePips(...)
EditTradePips ==
  /\ arg.fn = "editTrade.pips"
  /\ result = NoResult
  /\ LET d == arg.trade
     IN result' = [done |-> TRUE,
                   pips |-> calculatePips(d.symbol, d.entryPrice, d.exitPrice, d.type)]
  /\ UNCHANGED <<ProviderVars, arg>>

NextPips == AddTradePips \/ EditTradePips

SpecPips == InitPips /\ [][NextPips]_vars

\* ---- dailyStats
\* for (let i = 0; i < 30; i++)
Window == 30

\* calendar dates are day numbers; format(date, 'yyyy-MM-dd') of a local time
\* is its day number
Today == 100

\* the days new Date() falls on in two computations
Todays == {Today, Today + 1}

\* the close days of the trades: today, 29, 30 and 31 days ago
CloseDays == {Today, Today - 29, Today - 30, Today - 31}

StatTrades == [closeDay : CloseDays, pnl : {-5, 5}]

RECURSIVE SeqsUpTo(_, _)
\* the sequences over S of length at most n
SeqsUpTo(S, n) ==
  IF n = 0 THEN {<<>>}
  ELSE LET shorter == SeqsUpTo(S, n - 1)
       IN shorter \cup {Append(q, x) : q \in shorter, x \in S}

\* the time zones of the browser: at or east of UTC, west of UTC
Zones == {"UTC", "America/New_York"}

\* the local day of new Date('yyyy-MM-dd'), which is midnight UTC of that day
parsedDay(day, zone) == IF zone = "UTC" THEN day ELSE day - 1

emptyStat(day) == [date |-> day, pnl |-> 0, tradesCount |-> 0, winRate |-> 0]

RECURSIVE forEachTrade(_, _)
\* activeTrades.forEach(trade => { ... }) on statsMap
forEachTrade(statsMap, ts) ==
  IF ts = <<>> THEN statsMap
  ELSE LET trade == Head(ts)
           day == trade.closeDay
           next == IF day \in DOMAIN statsMap
                   THEN [statsMap EXCEPT ![day] =
                           [@ EXCEPT !.pnl = @ + trade.pnl, !.tradesCount = @ + 1]]
                   ELSE (day :> [date |-> day, pnl |-> trade.pnl, tradesCount |-> 1,
                                 winRate |-> 0]) @@ statsMap
       IN forEachTrade(next, Tail(ts))

\* (wins / dayTrades.length) * 100, in whole percent
winRate(ts, day, zone) ==
  LET dayTrades == SelectSeq(ts, LAMBDA t : t.closeDay = parsedDay(day, zone))
      wins == Len(SelectSeq(dayTrades, LAMBDA t : t.pnl > 0))
  IN IF Len(dayTrades) > 0 THEN (wins * PercentBase) \div Len(dayTrades) ELSE 0

RECURSIVE sortByDate(_)
\* result.sort((a, b) => new Date(a.date).getTime() - new Date(b.date).getTime())
sortByDate(statsMap) ==
  IF DOMAIN statsMap = {} THEN <<>>
  ELSE LET first == CHOOSE d \in DOMAIN statsMap : \A e \in DOMAIN statsMap : d <= e
       IN <<statsMap[first]>> \o sortByDate([d \in DOMAIN statsMap \ {first} |-> statsMap[d]])

\* the useMemo body, with the day new Date() falls on and the time zone
dailyStats(activeTrades, now, zone) ==
  LET initial == [d \in {now - i : i \in 0..(Window - 1)} |-> emptyStat(d)]
      statsMap == forEachTrade(initial, activeTrades)
      rated == [d \in DOMAIN statsMap |->
                  [statsMap[d] EXCEPT !.winRate = winRate(activeTrades, d, zone)]]
  IN sortByDate(rated)

InitStats ==
  /\ AtRest
  /\ \E ts \in SeqsUpTo(StatTrades, MaxTrades), later \in Todays, zone \in Zones :
       arg = [fn |-> "dailyStats", activeTrades |-> ts, now |-> Today, later |-> later,
              zone |-> zone]
  /\ result = NoResult

\* the memo is computed
ComputeDailyStats ==
  /\ arg.fn = "dailyStats"
  /\ result = NoResult
  /\ result' = [done |-> TRUE, again |-> FALSE,
                stats |-> dailyStats(arg.activeTrades, arg.now, arg.zone)]
  /\ UNCHANGED <<ProviderVars, arg>>

\* the memo is computed a second time, over the same activeTrades
RecomputeDailyStats ==
  /\ arg.fn = "dailyStats"
  /\ result.done
  /\ ~result.again
  /\ result' = [done |-> TRUE, again |-> TRUE, stats |-> result.stats,
                second |-> dailyStats(arg.activeTrades, arg.later, arg.zone)]
  /\ UNCHANGED <<ProviderVars, arg>>

NextStats == ComputeDailyStats \/ RecomputeDailyStats

SpecStats == InitStats /\ [][NextStats]_vars

\* ---- the consecutive wins and losses of the Analysis page
\* the trades of one metrics computation
MaxStreak == 3

StreakTrades == [closeTime : 1..MaxStreak, pnl : {-5, 0, 5}]

\* the trade lists whose close times differ
StreakLists ==
  {ts \in SeqsUpTo(StreakTrades, MaxStreak) :
     \A i, j \in 1..Len(ts) : i # j => ts[i].closeTime # ts[j].closeTime}

RECURSIVE InsertAscending(_, _)
InsertAscending(s, t) ==
  IF s = <<>> THEN <<t>>
  ELSE IF t.closeTime < Head(s).closeTime THEN <<t>> \o s
       ELSE <<Head(s)>> \o InsertAscending(Tail(s), t)

RECURSIVE sortedTrades(_)
\* [...trades].sort((a, b) => new Date(a.closeTime) - new Date(b.closeTime))
sortedTrades(ts) ==
  IF ts = <<>> THEN <<>>
  ELSE InsertAscending(sortedTrades(Tail(ts)), Head(ts))

NoStreaks ==
  [maxConsecutiveWins |-> 0, maxConsecutiveLosses |-> 0, currentWins |-> 0,
   currentLosses |-> 0]

RECURSIVE consecutive(_, _)
\* sortedTrades.forEach(t => { if (t.pnl > 0) ... else if (t.pnl < 0) ... })
consecutive(c, ts) ==
  IF ts = <<>> THEN c
  ELSE LET t == Head(ts)
           next == IF t.pnl > 0
                   THEN [c EXCEPT !.currentWins = @ + 1,
                                  !.currentLosses = 0,
                                  !.maxConsecutiveWins =
                                     IF c.currentWins + 1 > @ THEN c.currentWins + 1 ELSE @]
                   ELSE IF t.pnl < 0
                        THEN [c EXCEPT !.currentLosses = @ + 1,
                                       !.currentWins = 0,
                                       !.maxConsecutiveLosses =
                                          IF c.currentLosses + 1 > @
                                          THEN c.currentLosses + 1 ELSE @]
                        ELSE c
       IN consecutive(next, Tail(ts))

InitStreaks ==
  /\ AtRest
  /\ \E ts \in StreakLists : arg = [fn |-> "performanceMetrics", trades |-> ts]
  /\ result = NoResult

ComputeStreaks ==
  /\ arg.fn = "performanceMetrics"
  /\ result = NoResult
  /\ LET c == consecutive(NoStreaks, sortedTrades(arg.trades))
     IN result' = [done |-> TRUE, maxConsecutiveWins |-> c.maxConsecutiveWins,
                   maxConsecutiveLosses |-> c.maxConsecutiveLosses]
  /\ UNCHANGED <<ProviderVars, arg>>

NextStreaks == ComputeStreaks

SpecStreaks == InitStreaks /\ [][NextStreaks]_vars

\* ============================================================== properties
\* the ledger the mode in force writes to: React state, or the remote store
StoreAccounts == IF user = NoUser THEN accounts ELSE SortByName(AccountDocs(dbAccounts))

StoreTrades == IF user = NoUser THEN trades ELSE TradeDocs(dbTrades)

\* the same ledger after the step
StoreAccountsNext == IF user' = NoUser THEN accounts' ELSE SortByName(AccountDocs(dbAccounts'))

StoreTradesNext == IF user' = NoUser THEN trades' ELSE TradeDocs(dbTrades')

HasAccount(accs, id) == IndexOf(accs, id) # 0

BalanceOf(accs, id) == accs[IndexOf(accs, id)].balance

EquityOf(accs, id) == accs[IndexOf(accs, id)].equity

TradeOf(trs, id) == trs[IndexOf(trs, id)]

LedgerStore == <<accounts, trades, dbAccounts, dbTrades>>

\* the balance every account of the ledger specifications was created with
OpeningBalance == defaultAccount.balance

\* C1: after any sequence of addTrade, editTrade, deleteTrade and deleteTrades
\* calls, in local mode and in signed-in mode, every account's balance is its
\* opening balance plus the sum of pnl of the trades stored with its id.
C1_BalanceIsOpeningPlusPnl ==
  \A i \in 1..Len(StoreAccounts) :
    StoreAccounts[i].balance
      = OpeningBalance + PnlSum(StoreTrades, StoreAccounts[i].id)

\* C2: in signed-in mode, in every step of the provider's in-memory state,
\* the pnl that enters or
\* leaves `trades` for an account is the change of that account's balance in
\* `accounts`: neither becomes visible without the other.
C2_TradeAndBalanceChangeTogether ==
  [][\A id \in AccountIds :
       (user = Uid /\ user' = Uid /\ HasAccount(accounts, id) /\ HasAccount(accounts', id)) =>
         BalanceOf(accounts', id) - BalanceOf(accounts, id)
           = PnlSum(trades', id) - PnlSum(trades, id)]_vars

\* exactly one trade t was stored, and the account it names took its pnl
AddApplied ==
  \E t \in Range(StoreTradesNext) :
    /\ t.id \notin Ids(StoreTrades)
    /\ Ids(StoreTradesNext) = Ids(StoreTrades) \cup {t.id}
    /\ t.status = "CLOSED"
    /\ t.accountId = view.activeAccountId
    /\ HasAccount(StoreAccounts, t.accountId)
    /\ HasAccount(StoreAccountsNext, t.accountId)
    /\ BalanceOf(StoreAccountsNext, t.accountId) = BalanceOf(StoreAccounts, t.accountId) + t.pnl
    /\ EquityOf(StoreAccountsNext, t.accountId) = EquityOf(StoreAccounts, t.accountId) + t.pnl

\* C3: every addTrade call either changes nothing, or stores exactly one new
\* CLOSED trade with a fresh id and the active account's id and raises that
\* account's balance and equity by the trade's pnl; also when the active
\* account id names no account.
C3_AddTradeAllOrNothing ==
  [][\A d \in AddInputs :
       addTrade(d) => (AddApplied \/ UNCHANGED LedgerStore)]_vars

\* the id was given to a trade, and the ledger no longer holds that trade
AlreadyDeleted(id) == id <= nextId /\ id \notin Ids(StoreTrades)

\* C6: deleteTrade with an id whose trade is already deleted changes no trade
\* and no balance, also when the handler has not yet seen the first deletion.
C6_DeleteTradeIdempotent ==
  [][\A id \in TradeIds :
       (deleteTrade(id) /\ AlreadyDeleted(id)) => UNCHANGED LedgerStore]_vars

\* C9: the accounts and trades that local storage held at sign-in are the
\* accounts and trades of the guest again after sign-out, when no handler was
\* called in between: sign-in, snapshot delivery and sign-out lose none of them.
C9_LocalDataSurvivesSession ==
  [][(signOut /\ lastOp.op = "signIn") =>
       /\ accounts' = session.saved.accounts
       /\ trades' = session.saved.trades
       /\ localStorage'.accounts = session.saved.accounts
       /\ localStorage'.trades = session.saved.trades]_vars

\* a record that a listener delivered and that local storage did not hold at sign-in
RemoteSourced(r) ==
  \/ r \in session.gotAccounts /\ r \notin Range(session.saved.accounts)
  \/ r \in session.gotTrades /\ r \notin Range(session.saved.trades)

\* C10: sign-out replaces the in-memory state with the content of local
\* storage, and no record that came from the remote store remains in it.
C10_SignOutClearsRemoteState ==
  [][signOut =>
       /\ State' = localStorage'
       /\ \A r \in Range(accounts') \cup Range(trades') : ~RemoteSourced(r)]_vars

HasTrade(trs, id) == IndexOf(trs, id) # 0

\* the handlers of the last render hold the stored trade and, where they read
\* a balance (signed-in mode), the stored balance of the trade's account
HandlerIsCurrent(id) ==
  user # NoUser =>
    /\ HasTrade(view.trades, id)
    /\ TradeOf(view.trades, id) = TradeOf(StoreTrades, id)
    /\ HasAccount(view.accounts, TradeOf(StoreTrades, id).accountId)
    /\ HasAccount(StoreAccounts, TradeOf(StoreTrades, id).accountId)
    /\ BalanceOf(view.accounts, TradeOf(StoreTrades, id).accountId)
         = BalanceOf(StoreAccounts, TradeOf(StoreTrades, id).accountId)

\* the P&L of a list of partial exits: each exit closes its percentage of the size
RECURSIVE ExitsPnl(_, _, _, _, _)
ExitsPnl(entry, size, type, exits, n) ==
  IF n = 0 THEN 0
  ELSE ExitsPnl(entry, size, type, exits, n - 1)
       + (IF type = "BUY" THEN 1 ELSE -1)
         * (exits[n].price - entry) * size * exits[n].percentage

Given(o, default) == IF IsDef(o) THEN Get(o) ELSE default

\* the owning account's balance and equity moved by the change of the trade's pnl
BalanceFollowsPnl(id) ==
  LET a == TradeOf(StoreTrades, id).accountId
      diff == TradeOf(StoreTradesNext, id).pnl - TradeOf(StoreTrades, id).pnl
  IN /\ HasAccount(StoreAccountsNext, a)
     /\ BalanceOf(StoreAccountsNext, a) = BalanceOf(StoreAccounts, a) + diff
     /\ EquityOf(StoreAccountsNext, a) = EquityOf(StoreAccounts, a) + diff
     /\ \A b \in AccountIds \ {a} :
          HasAccount(StoreAccounts, b) =>
            BalanceOf(StoreAccountsNext, b) = BalanceOf(StoreAccounts, b)

\* C4: editTrade of a stored trade with non-empty updates.exits and no
\* updates.pnl, called from a render that shows the stored trade, sets the
\* trade's pnl to the sum over the exits of (price - entry) * size * share *
\* direction * 100 and moves the owning account's balance and equity by
\* newPnl - oldPnl, in local and in signed-in mode.
C4_EditExitsRecomputesPnl ==
  [][\A id \in TradeIds, u \in AllEditInputs :
       ( /\ lastOp'.ids = <<id>>
         /\ ~IsDef(u.pnl)
         /\ IsDef(u.exits)
         /\ Len(Get(u.exits)) > 0
         /\ HasTrade(StoreTrades, id)
         /\ HandlerIsCurrent(id)
         /\ editTrade(id, u) ) =>
           /\ HasTrade(StoreTradesNext, id)
           /\ TradeOf(StoreTradesNext, id).pnl
                = LET old == TradeOf(StoreTrades, id)
                  IN ExitsPnl(Given(u.entryPrice, old.entryPrice), Given(u.size, old.size),
                              Given(u.type, old.type), Get(u.exits), Len(Get(u.exits)))
           /\ BalanceFollowsPnl(id)]_vars

\* a signed-in edit stored a pnl recomputed from two partial exits
C4_Witness ==
  /\ user = Uid
  /\ lastOp = Op("editTrade", <<1>>, TRUE)
  /\ HasTrade(StoreTrades, 1)
  /\ Len(TradeOf(StoreTrades, 1).exits) = 2
  /\ LET t == TradeOf(StoreTrades, 1)
     IN /\ t.pnl = ExitsPnl(t.entryPrice, t.size, t.type, t.exits, 2)
        /\ t.pnl # storedTrade.pnl
        /\ BalanceOf(StoreAccounts, t.accountId) = t.pnl

\* C5: editTrade of a stored trade with updates.pnl defined, called from a
\* render that shows the stored trade, stores exactly updates.pnl as the
\* trade's pnl whatever entryPrice, exitPrice, size, type or exits the update
\* carries, and moves the owning account's balance by updates.pnl - oldPnl.
C5_EditExplicitPnlStoredAsGiven ==
  [][\A id \in TradeIds, u \in AllEditInputs :
       ( /\ lastOp'.ids = <<id>>
         /\ IsDef(u.pnl)
         /\ HasTrade(StoreTrades, id)
         /\ HandlerIsCurrent(id)
         /\ editTrade(id, u) ) =>
           /\ HasTrade(StoreTradesNext, id)
           /\ TradeOf(StoreTradesNext, id).pnl = Get(u.pnl)
           /\ BalanceFollowsPnl(id)]_vars

\* a local edit carried pnl together with exits and a new entry price, size
\* and type, and the pnl given is the pnl stored
C5_Witness ==
  /\ user = NoUser
  /\ lastOp = Op("editTrade", <<1>>, TRUE)
  /\ HasTrade(trades, 1)
  /\ LET t == TradeOf(trades, 1)
     IN /\ t.pnl = 7
        /\ t.exits # <<>>
        /\ t.entryPrice = 0
        /\ t.size = 2
        /\ t.type = "SELL"
        /\ BalanceOf(accounts, t.accountId) = 7

\* the id lists of the deletion handlers: deleteTrade(id) passes <<id>>
DeleteLists == IdLists \cup {<<id>> : id \in TradeIds}

\* the handlers of the last render hold every listed trade as it is stored
\* and, in signed-in mode, the stored balance of its account
HandlerSeesListed(ids) ==
  \A id \in Range(ids) :
    /\ HasTrade(view.trades, id) <=> HasTrade(StoreTrades, id)
    /\ HasTrade(StoreTrades, id) =>
         /\ TradeOf(view.trades, id) = TradeOf(StoreTrades, id)
         /\ user # NoUser =>
              /\ HasAccount(view.accounts, TradeOf(StoreTrades, id).accountId)
              /\ BalanceOf(view.accounts, TradeOf(StoreTrades, id).accountId)
                   = BalanceOf(StoreAccounts, TradeOf(StoreTrades, id).accountId)

\* the pnl an account loses when the trades with the listed ids are removed
RemovedPnl(ids, aid) ==
  PnlSum(StoreTrades, aid) - PnlSum(Filter(StoreTrades, Range(ids)), aid)

\* C7: deleteTrades(ids), called from a render that shows the listed trades as
\* stored, removes every listed trade and no other, and lowers the balance and
\* equity of each account by the sum of pnl of its removed trades, in one
\* write that the accounts listener sees whole.
C7_DeleteTradesOneNetAdjustment ==
  [][\A ids \in DeleteLists :
       ( /\ lastOp'.ids = ids
         /\ Len(ids) > 0
         /\ HandlerSeesListed(ids)
         /\ deleteTrades(ids) ) =>
           /\ Ids(StoreTradesNext) = Ids(StoreTrades) \ Range(ids)
           /\ \A aid \in AccountIds :
                /\ BalanceOf(StoreAccountsNext, aid)
                     = BalanceOf(StoreAccounts, aid) - RemovedPnl(ids, aid)
                /\ EquityOf(StoreAccountsNext, aid)
                     = EquityOf(StoreAccounts, aid) - RemovedPnl(ids, aid)
           /\ snapAccounts' \in {snapAccounts, Append(snapAccounts, dbAccounts')}]_vars

FirstByName(docs) ==
  CHOOSE a \in docs : \A b \in docs \ {a} : NameRank(a.name) < NameRank(b.name)

\* C11: when the accounts listener receives a snapshot with at least one
\* account, activeAccountId stays as it is if the snapshot holds an account
\* with that id, and otherwise becomes the id of the snapshot's account whose
\* name sorts first; nothing but the snapshot and the current id decides it.
C11_FailoverToFirstByName ==
  [][(deliverAccounts /\ DOMAIN Head(snapAccounts) # {}) =>
       LET docs == {Head(snapAccounts)[k] : k \in DOMAIN Head(snapAccounts)}
       IN activeAccountId' = IF activeAccountId \in {a.id : a \in docs}
                             THEN activeAccountId
                             ELSE FirstByName(docs).id]_vars

\* a guest whose active account was acc_b signed in to a store of acc_main and
\* acc_x, and the active account is now acc_x, "A Savings"
C11_Witness ==
  /\ user = Uid
  /\ lastOp.op = "signIn"
  /\ session.saved.activeAccountId = "acc_b"
  /\ DOMAIN dbAccounts = {"acc_main", "acc_x"}
  /\ Ids(accounts) = {"acc_main", "acc_x"}
  /\ activeAccountId = "acc_x"

AllAccounts ==
  Range(accounts) \cup Range(localStorage.accounts)
    \cup {dbAccounts[k] : k \in DOMAIN dbAccounts}
    \cup UNION {{snapAccounts[i][k] : k \in DOMAIN snapAccounts[i]} :
                  i \in 1..Len(snapAccounts)}

\* C13: in every state reached by createAccount, addTrade, editTrade,
\* deleteTrades, deposit, withdraw, setBalance and setInitialBalance, in local
\* mode and in signed-in mode, every account's equity equals its balance.
C13_EquityEqualsBalance == \A a \in AllAccounts : a.equity = a.balance

\* a trade is stored and setInitialBalance has then set the balance of its
\* account to 3
C13_Witness ==
  /\ lastOp.op = "setInitialBalance"
  /\ Len(StoreTrades) > 0
  /\ HasAccount(StoreAccounts, StoreTrades[1].accountId)
  /\ BalanceOf(StoreAccounts, StoreTrades[1].accountId) = 3
  /\ EquityOf(StoreAccounts, StoreTrades[1].accountId) = 3

\* the balances of the stored accounts other than id
OtherBalances(accs, id) ==
  {<<accs[i].id, accs[i].balance>> : i \in {j \in 1..Len(accs) : accs[j].id # id}}

\* the balance of the active account is b afterwards and no other account's
\* balance has changed
ActiveBalanceBecomes(b) ==
  /\ HasAccount(StoreAccountsNext, activeAccountId)
  /\ BalanceOf(StoreAccountsNext, activeAccountId) = b
  /\ OtherBalances(StoreAccountsNext, activeAccountId)
       = OtherBalances(StoreAccounts, activeAccountId)

\* C14: deposit(a) adds a to the stored balance of the active account and
\* withdraw(a) subtracts it, also when the call is issued before the snapshot
\* of the previous one has arrived, so that a sequence of them ends at the
\* starting balance plus the deposits minus the withdrawals; setBalance(a) and
\* setInitialBalance(a) make the balance a; no other account's balance changes.
C14_DepositsAndWithdrawalsAdd ==
  [][\A a \in Amounts :
       /\ (lastOp'.op = "deposit" /\ HasAccount(StoreAccounts, activeAccountId) /\ deposit(a))
            => ActiveBalanceBecomes(BalanceOf(StoreAccounts, activeAccountId) + a)
       /\ (lastOp'.op = "withdraw" /\ HasAccount(StoreAccounts, activeAccountId) /\ withdraw(a))
            => ActiveBalanceBecomes(BalanceOf(StoreAccounts, activeAccountId) - a)
       /\ (lastOp'.op = "setBalance" /\ HasAccount(StoreAccounts, activeAccountId)
             /\ setBalance(a))
            => ActiveBalanceBecomes(a)
       /\ (lastOp'.op = "setInitialBalance" /\ HasAccount(StoreAccounts, activeAccountId)
             /\ setInitialBalance(a))
            => ActiveBalanceBecomes(a)]_vars

\* C15: createAccount(name, initialBalance, currency) adds exactly one account
\* to the stored accounts, with a new id, the given name and balance = equity
\* = initialBalance; the accounts and trades stored before are unchanged, and
\* the new account is the active account.
C15_CreateAccountAddsOneActive ==
  [][\A name \in AccountNames, initialBalance \in InitialBalances :
       (lastOp'.op = "createAccount" /\ createAccount(name, initialBalance)) =>
         \E new \in Range(StoreAccountsNext) :
           /\ new.id \notin Ids(StoreAccounts)
           /\ new.name = name
           /\ new.balance = initialBalance
           /\ new.equity = initialBalance
           /\ Range(StoreAccountsNext) = Range(StoreAccounts) \cup {new}
           /\ Len(StoreAccountsNext) = Len(StoreAccounts) + 1
           /\ StoreTradesNext = StoreTrades
           /\ activeAccountId' = new.id]_vars

\* an account "Z Fund" with balance 20 was created next to a stored trade of
\* acc_main, and is the active account
C15_Witness ==
  /\ lastOp.op = "createAccount"
  /\ Len(StoreTrades) > 0
  /\ HasAccount(StoreAccounts, activeAccountId)
  /\ activeAccountId \in CreatedIds
  /\ BalanceOf(StoreAccounts, activeAccountId) = 20
  /\ StoreAccounts[IndexOf(StoreAccounts, activeAccountId)].name = "Z Fund"

Written == result.done /\ arg.fn \in {"addTrade", "editTrade"}

\* C17: the document addTrade and editTrade hand to the remote store, and the
\* document stored as a result, have no field whose value is undefined, and
\* have every field of the trade whose value is defined, 0, false, '' and null
\* included, with the trade's value.
C17_WrittenDocHasDefinedFieldsOnly ==
  Written =>
    /\ \A k \in DOMAIN result.written : result.written[k] # "undefined"
    /\ \A k \in DOMAIN result.stored : result.stored[k] # "undefined"
    /\ DOMAIN result.written \subseteq DOMAIN arg.trade
    /\ \A k \in DOMAIN arg.trade :
         arg.trade[k] # "undefined" =>
           /\ k \in DOMAIN result.written /\ result.written[k] = arg.trade[k]
           /\ k \in DOMAIN result.stored /\ result.stored[k] = arg.trade[k]

\* an edited trade with stopLoss 0, slStatus undefined and notes '' was
\* written: stopLoss and notes are in the document, slStatus is not
C17_Witness ==
  /\ Written
  /\ arg.fn = "editTrade"
  /\ arg.old = << >>
  /\ DOMAIN arg.trade = TradeFields
  /\ arg.trade["stopLoss"] = "0"
  /\ arg.trade["slStatus"] = "undefined"
  /\ arg.trade["notes"] = "''"
  /\ DOMAIN result.written = {"stopLoss", "notes"}

\* the pips the statement gives, in tenths: the price difference in the
\* trade's direction times 100 (JPY) or 10000, rounded to one decimal
StatedPips(d) ==
  LET diff == IF d.type = "BUY" THEN d.exitPrice - d.entryPrice
              ELSE d.entryPrice - d.exitPrice
      factor == IF includesJPY(toUpperCase(d.symbol)) THEN 100 ELSE 10000
  IN toFixed1(diff * factor, PriceScale)

\* C18: for every symbol, entry price, exit price and type, prices of 0
\* included, the pips stored by addTrade (pips not supplied) and recomputed by
\* editTrade are (exit - entry for BUY, entry - exit for SELL) times 100 when
\* the upper-cased symbol contains 'JPY' and times 10000 otherwise, rounded to
\* one decimal.
C18_PipsFormula ==
  (result.done /\ arg.fn \in {"addTrade.pips", "editTrade.pips"}) =>
    result.pips = StatedPips(arg.trade)

RECURSIVE TotalPnl(_)
\* the sum of pnl of the trades of sequence s
TotalPnl(s) == IF s = <<>> THEN 0 ELSE Head(s).pnl + TotalPnl(Tail(s))

\* dailyStats has been computed
StatsComputed == result.done /\ arg.fn = "dailyStats"

\* the days of the trailing 30-day window that ends on the day of the computation
InWindow(day) == arg.now - 29 <= day /\ day <= arg.now

\* C19: dailyStats covers a trailing 30-day window: a trade closing today or up
\* to 29 days ago is counted in the entry of its close date (count and pnl), and
\* the returned list has no entry for a date outside the window, so a trade
\* closing 31 days ago contributes to none.
C19_TrailingThirtyDays ==
  StatsComputed =>
    /\ \A i \in 1..Len(arg.activeTrades) :
         LET day == arg.activeTrades[i].closeDay
             sameDay == SelectSeq(arg.activeTrades, LAMBDA t : t.closeDay = day)
         IN InWindow(day) =>
              \E k \in 1..Len(result.stats) :
                /\ result.stats[k].date = day
                /\ result.stats[k].tradesCount = Len(sameDay)
                /\ result.stats[k].pnl = TotalPnl(sameDay)
    /\ \A k \in 1..Len(result.stats) : InWindow(result.stats[k].date)

\* C20: two computations of dailyStats over the same active trades return the
\* same list, whatever day the current date read inside them falls on.
C20_StatsDependOnTradesOnly ==
  (StatsComputed /\ result.again) => result.second = result.stats

RECURSIVE PctSum(_, _)
\* the percentage of the position the first n exits close
PctSum(exits, n) == IF n = 0 THEN 0 ELSE PctSum(exits, n - 1) + exits[n].percentage

RECURSIVE PricePctSum(_, _)
\* the sum of price * percentage over the first n exits
PricePctSum(exits, n) ==
  IF n = 0 THEN 0 ELSE PricePctSum(exits, n - 1) + exits[n].price * exits[n].percentage

\* the with-exits P&L of trade entry: every exit closes its percentage of the
\* size at its price, and what the exits leave open closes at exitPrice
WithExitsPnl(entryPrice, exitPrice, size, type, exits) ==
  LET closed == PctSum(exits, Len(exits))
  IN ExitsPnl(entryPrice, size, type, exits, Len(exits))
       + IF closed < 100
         THEN (IF type = "BUY" THEN 1 ELSE -1) * (exitPrice - entryPrice) * size
                * (100 - closed)
         ELSE 0

\* C21: addTrade called without pnl stores, for a non-empty exits list, the sum
\* over the exits of (exit.price - entryPrice) * (size * exit.percentage/100) *
\* direction * 100 plus the remainder closed at the top-level exitPrice when
\* the percentages total less than 100, and for no exits
\* (exitPrice - entryPrice) * size * direction * 100.
C21_AddTradePnlFromExits ==
  [][\A d \in ExitAdds :
       ( /\ lastOp' = Op("addTrade", <<nextId + 1>>, TRUE)
         /\ ~IsDef(d.pnl)
         /\ addTrade(d) ) =>
           /\ HasTrade(StoreTradesNext, nextId + 1)
           /\ TradeOf(StoreTradesNext, nextId + 1).pnl
                = IF d.exits = <<>>
                  THEN (d.exitPrice - d.entryPrice) * d.size * Direction(d.type) * 100
                  ELSE WithExitsPnl(d.entryPrice, d.exitPrice, d.size, d.type, d.exits)]_vars

\* C22: when editTrade recomputes pnl from updates.exits (no updates.pnl),
\* called from a render that shows the stored trade, and the exits total less
\* than 100 percent, the new pnl includes the remaining fraction closed at the
\* trade's top-level exitPrice: it is the with-exits P&L of trade entry.
C22_EditExitsIncludesRemainder ==
  [][\A id \in TradeIds, u \in AllEditInputs :
       ( /\ lastOp'.ids = <<id>>
         /\ ~IsDef(u.pnl)
         /\ IsDef(u.exits)
         /\ Len(Get(u.exits)) > 0
         /\ PctSum(Get(u.exits), Len(Get(u.exits))) < 100
         /\ HasTrade(StoreTrades, id)
         /\ HandlerIsCurrent(id)
         /\ editTrade(id, u) ) =>
           /\ HasTrade(StoreTradesNext, id)
           /\ TradeOf(StoreTradesNext, id).pnl
                = LET old == TradeOf(StoreTrades, id)
                  IN WithExitsPnl(Given(u.entryPrice, old.entryPrice),
                                  Given(u.exitPrice, old.exitPrice),
                                  Given(u.size, old.size), Given(u.type, old.type),
                                  Get(u.exits))]_vars

\* the prices of the exits
ExitPricesOf(exits) == {exits[n].price : n \in 1..Len(exits)}

\* C23: after editTrade with non-empty updates.exits and no updates.pnl, called
\* from a render that shows the stored trade, the trade's exitPrice is the
\* percentage-weighted average of the exit prices, the part of the position no
\* exit closes counted at the top-level exitPrice the trade had; it lies
\* between the lowest and the highest of the prices involved.
C23_EditExitsWeightedExitPrice ==
  [][\A id \in TradeIds, u \in AllEditInputs :
       ( /\ lastOp'.ids = <<id>>
         /\ ~IsDef(u.pnl)
         /\ IsDef(u.exits)
         /\ Len(Get(u.exits)) > 0
         /\ HasTrade(StoreTrades, id)
         /\ HandlerIsCurrent(id)
         /\ editTrade(id, u) ) =>
           LET exits == Get(u.exits)
               closed == PctSum(exits, Len(exits))
               before == Given(u.exitPrice, TradeOf(StoreTrades, id).exitPrice)
               involved == ExitPricesOf(exits) \cup (IF closed < 100 THEN {before} ELSE {})
               after == TradeOf(StoreTradesNext, id).exitPrice
           IN /\ HasTrade(StoreTradesNext, id)
              /\ after * 100 = PricePctSum(exits, Len(exits)) + before * (100 - closed)
              /\ \E lo \in involved, hi \in involved : lo <= after /\ after <= hi]_vars

\* the trade lists in closeTime-ascending order: the trade closing k-th
ByCloseTime(ts, k) ==
  CHOOSE t \in Range(ts) : Cardinality({o \in Range(ts) : o.closeTime < t.closeTime}) = k - 1

\* the lengths of the runs of adjacent trades, in closeTime order, that are all
\* wins (sign 1) or all losses (sign -1), 0 included
RunLengths(ts, sign) ==
  {0} \cup {j - i + 1 : <<i, j>> \in
              {r \in (1..Len(ts)) \X (1..Len(ts)) :
                 /\ r[1] <= r[2]
                 /\ \A k \in r[1]..r[2] : ByCloseTime(ts, k).pnl * sign > 0}}

LongestRun(ts, sign) == CHOOSE n \in RunLengths(ts, sign) : \A m \in RunLengths(ts, sign) : m <= n

\* C24: maxConsecutiveWins (maxConsecutiveLosses) is the length of the longest
\* run of trades adjacent in closeTime-ascending order that all have pnl > 0
\* (pnl < 0); a trade that is not a win (not a loss), a breakeven trade with
\* pnl = 0 included, ends the run.
C24_LongestStreaks ==
  (result.done /\ arg.fn = "performanceMetrics") =>
    /\ result.maxConsecutiveWins = LongestRun(arg.trades, 1)
    /\ result.maxConsecutiveLosses = LongestRun(arg.trades, -1)

\* C25: in every state reached by createAccount, switchAccount, accounts
\* snapshots, sign-in and sign-out from a state where activeAccountId names an
\* account of `accounts`, activeAccountId names an account of `accounts`.
C25_ActiveAccountExists == HasAccount(accounts, activeAccountId)

\* C26: deleteTrades(ids), called from a render that shows the listed trades
\* as stored, changes the balance of each account by minus the sum of pnl of
\* the distinct trades removed, however often ids repeats an id, with and
\* without a signed-in user.
C26_DeleteReversesEachTradeOnce ==
  [][\A ids \in DeleteLists :
       ( /\ lastOp'.ids = ids
         /\ Len(ids) > 0
         /\ HandlerSeesListed(ids)
         /\ deleteTrades(ids) ) =>
           \A aid \in AccountIds :
             BalanceOf(StoreAccountsNext, aid)
               = BalanceOf(StoreAccounts, aid) - RemovedPnl(ids, aid)]_vars

\* the updates that carry no pnl, no exit, no entry price, exit price, size
\* or type: the other fields of a trade (notes, strategy, stop loss, ...)
FrameUpdates ==
  {u \in AllEditInputs :
     /\ ~IsDef(u.pnl)
     /\ IsDef(u.exits) => Get(u.exits) = <<>>
     /\ ~IsDef(u.entryPrice) /\ ~IsDef(u.exitPrice) /\ ~IsDef(u.size) /\ ~IsDef(u.type)}

DefaultOnly == (defaultAccount.id :> defaultAccount)

\* the user has just signed in and the first accounts snapshot, empty, is pending
SignedInToEmpty == lastOp.op = "signIn" /\ snapAccounts = <<EmptyColl>>

\* C29: after a sign-in that finds the remote accounts collection empty, and
\* as long as no handler is called, the default account (acc_main, 0, 0) is
\* written remotely and the state is eventually reached where the accounts in
\* memory are exactly that account and activeAccountId is 'acc_main'; while an
\* accounts snapshot is still pending, the accounts in memory are the local
\* ones the session was entered with.
C29_DefaultAccountOnEmptySignIn ==
  /\ SignedInToEmpty ~>
       \/ lastOp.op # "signIn"
       \/ /\ dbAccounts = DefaultOnly
          /\ accounts = <<defaultAccount>>
          /\ activeAccountId = "acc_main"
  /\ []( ( /\ lastOp.op = "signIn"
           /\ snapAccounts # <<>>
           /\ dbAccounts \in {EmptyColl, DefaultOnly} ) =>
             accounts = session.saved.accounts )

\* a guest with two accounts, the second one active, signed in to an empty
\* store; both snapshots were delivered and memory holds the default account
C29_Witness ==
  /\ user = Uid
  /\ lastOp.op = "signIn"
  /\ session.saved.activeAccountId = "acc_b"
  /\ Len(session.saved.accounts) = 2
  /\ snapAccounts = <<>>
  /\ dbAccounts = DefaultOnly
  /\ accounts = <<defaultAccount>>
  /\ activeAccountId = "acc_main"

\* C30: the same editTrade applied to the same stored trade by a guest and by
\* a signed-in user whose snapshot has been delivered leaves the same trade:
\* every field reads the same in both, a field the edit set to undefined
\* included.
C30_LocalAndSignedInAgree ==
  (result.done /\ arg.fn = "editInBothModes") =>
    \A k \in TradeFields : FieldOf(result.local, k) = FieldOf(result.remote, k)

====
